---- MODULE Spec2Model ----
(***************************************************************************)
(* Model of compute_win_chance (src/fe4/arena_calc.py, lines 215-275): the *)
(* dynamic-programming table of win chances of an FE4 arena fight.         *)
(*                                                                         *)
(* The table cells and the outcome probabilities are IEEE-754 binary64     *)
(* numbers in the code (np.zeros allocates float64, and int / int is a     *)
(* Python float).  They are modelled bit for bit: a float is a sign, a     *)
(* 53-bit mantissa and an exponent, every operation is computed exactly    *)
(* and then rounded to nearest, ties to even.  The mantissa does not fit a *)
(* TLC integer, so it is kept as a little-endian sequence of 15-bit limbs. *)
(* Exponents are unbounded: the values met here are nowhere near the       *)
(* overflow or subnormal range of binary64.  The sign of a zero is not     *)
(* kept (Python compares -0.0 and 0.0 equal).                              *)
(***************************************************************************)
EXTENDS Integers, Sequences, FiniteSets, TLC

--------------------------------------------------------------------------
(* Natural numbers of any size: little-endian limbs, no leading zero limb *)

Base == 2 ^ 15

Min(x, y) == IF x <= y THEN x ELSE y
Max(x, y) == IF x >= y THEN x ELSE y
Abs(x) == IF x < 0 THEN 0 - x ELSE x

Limb(a, i) == IF i <= Len(a) THEN a[i] ELSE 0

RECURSIVE BigTrim(_)
BigTrim(a) ==
    IF a = <<>> THEN a
    ELSE IF a[Len(a)] = 0 THEN BigTrim(SubSeq(a, 1, Len(a) - 1))
    ELSE a

RECURSIVE BigFromNat(_)
BigFromNat(n) ==
    IF n = 0 THEN <<>> ELSE <<n % Base>> \o BigFromNat(n \div Base)

RECURSIVE BigAddFrom(_, _, _, _)
BigAddFrom(a, b, i, c) ==
    IF i > Len(a) /\ i > Len(b)
    THEN (IF c = 0 THEN <<>> ELSE <<c>>)
    ELSE LET s == Limb(a, i) + Limb(b, i) + c
         IN  <<s % Base>> \o BigAddFrom(a, b, i + 1, s \div Base)

BigAdd(a, b) == BigAddFrom(a, b, 1, 0)

RECURSIVE BigSubFrom(_, _, _, _)
BigSubFrom(a, b, i, c) ==
    IF i > Len(a) THEN <<>>
    ELSE LET s == Limb(a, i) - Limb(b, i) - c
         IN  IF s < 0 THEN <<s + Base>> \o BigSubFrom(a, b, i + 1, 1)
             ELSE <<s>> \o BigSubFrom(a, b, i + 1, 0)

\* a - b for a >= b
BigSub(a, b) == BigTrim(BigSubFrom(a, b, 1, 0))

RECURSIVE BigMulSmallFrom(_, _, _, _)
BigMulSmallFrom(a, d, i, c) ==
    IF i > Len(a) THEN (IF c = 0 THEN <<>> ELSE <<c>>)
    ELSE LET s == a[i] * d + c
         IN  <<s % Base>> \o BigMulSmallFrom(a, d, i + 1, s \div Base)

\* a * d for 0 <= d < Base
BigMulSmall(a, d) == IF d = 0 THEN <<>> ELSE BigMulSmallFrom(a, d, 1, 0)

BigShiftLimbs(a, n) == IF a = <<>> THEN a ELSE [i \in 1..n |-> 0] \o a

RECURSIVE BigMulFrom(_, _, _)
BigMulFrom(a, b, j) ==
    IF j > Len(b) THEN <<>>
    ELSE BigAdd(BigShiftLimbs(BigMulSmall(a, b[j]), j - 1), BigMulFrom(a, b, j + 1))

BigMul(a, b) == BigMulFrom(a, b, 1)

\* <<quotient limbs 1..i, remainder>> of (r * Base^i + a[1..i]) divided by d, 0 < d <= Base
RECURSIVE BigDivRem(_, _, _, _)
BigDivRem(a, d, i, r) ==
    IF i = 0 THEN <<<<>>, r>>
    ELSE LET cur  == r * Base + a[i]
             rest == BigDivRem(a, d, i - 1, cur % d)
         IN  <<Append(rest[1], cur \div d), rest[2]>>

BigDivSmall(a, d) == BigTrim(BigDivRem(a, d, Len(a), 0)[1])

RECURSIVE BigCmpFrom(_, _, _)
BigCmpFrom(a, b, i) ==
    IF i = 0 THEN 0
    ELSE IF a[i] < b[i] THEN 0 - 1
    ELSE IF a[i] > b[i] THEN 1
    ELSE BigCmpFrom(a, b, i - 1)

BigCmp(a, b) ==
    IF Len(a) < Len(b) THEN 0 - 1
    ELSE IF Len(a) > Len(b) THEN 1
    ELSE BigCmpFrom(a, b, Len(a))

RECURSIVE BitLenSmall(_)
BitLenSmall(x) == IF x = 0 THEN 0 ELSE 1 + BitLenSmall(x \div 2)

LimbBits == BitLenSmall(Base - 1)

BigBitLen(a) ==
    IF a = <<>> THEN 0 ELSE LimbBits * (Len(a) - 1) + BitLenSmall(a[Len(a)])

BigShl(a, k) == BigShiftLimbs(BigMulSmall(a, 2 ^ (k % LimbBits)), k \div LimbBits)

BigShr(a, k) ==
    LET kept == SubSeq(a, (k \div LimbBits) + 1, Len(a))
    IN  BigDivSmall(kept, 2 ^ (k % LimbBits))

BigOdd(a) == a # <<>> /\ a[1] % 2 = 1

--------------------------------------------------------------------------
(* binary64 arithmetic: value = s * m * 2^e, 2^52 <= m < 2^53 or m = 0    *)

Prec == 53

FZero == [s |-> 1, m |-> <<>>, e |-> 0]

\* the binary64 nearest to s * m * 2^e, ties to even
FRound(s, m, e) ==
    IF m = <<>> THEN FZero
    ELSE LET L == BigBitLen(m)
         IN  IF L <= Prec
             THEN [s |-> s, m |-> BigShl(m, Prec - L), e |-> e - (Prec - L)]
             ELSE LET k      == L - Prec
                      q2     == BigShr(m, k - 1)
                      sticky == BigShl(q2, k - 1) # m
                      q      == BigShr(q2, 1)
                      up     == BigOdd(q2) /\ (sticky \/ BigOdd(q))
                      r      == IF up THEN BigAdd(q, <<1>>) ELSE q
                  IN  IF BigBitLen(r) > Prec
                      THEN [s |-> s, m |-> BigShr(r, 1), e |-> e + k + 1]
                      ELSE [s |-> s, m |-> r, e |-> e + k]

Sign(n) == IF n < 0 THEN 0 - 1 ELSE 1

FFromInt(n) == FRound(Sign(n), BigFromNat(Abs(n)), 0)

FNeg(a) == IF a.m = <<>> THEN a ELSE [a EXCEPT !.s = 0 - a.s]

FMul(a, b) == FRound(a.s * b.s, BigMul(a.m, b.m), a.e + b.e)

\* a + b exactly: sign, magnitude and exponent, not rounded
ExactAdd(a, b) ==
    IF a.m = <<>> THEN b
    ELSE IF b.m = <<>> THEN a
    ELSE LET e  == Min(a.e, b.e)
             ma == BigShl(a.m, a.e - e)
             mb == BigShl(b.m, b.e - e)
             c  == BigCmp(ma, mb)
         IN  IF a.s = b.s THEN [s |-> a.s, m |-> BigAdd(ma, mb), e |-> e]
             ELSE IF c = 0 THEN FZero
             ELSE IF c > 0 THEN [s |-> a.s, m |-> BigSub(ma, mb), e |-> e]
             ELSE [s |-> b.s, m |-> BigSub(mb, ma), e |-> e]

FAdd(a, b) == LET x == ExactAdd(a, b) IN FRound(x.s, x.m, x.e)

FSub(a, b) == FAdd(a, FNeg(b))

\* Python's int / int (true division, correctly rounded), for d in 1..Base
GuardBits == Prec + 22
FDivInt(n, d) ==
    LET num == BigShl(BigFromNat(Abs(n)), GuardBits)
        qr  == BigDivRem(num, d, Len(num), 0)
        q   == BigShl(BigTrim(qr[1]), 1)
        m   == IF qr[2] = 0 THEN q ELSE BigAdd(q, <<1>>)
    IN  FRound(Sign(n), m, 0 - (GuardBits + 1))

\* a <= b, a < b, decided on the exact difference
FLe(a, b) == LET d == FSub(a, b) IN d.m = <<>> \/ d.s < 0
FLt(a, b) == LET d == FSub(a, b) IN d.m # <<>> /\ d.s < 0

FOne == FFromInt(1)

--------------------------------------------------------------------------
(* The inputs of the model                                                *)

MaxHP == 3
MaxDmg == 2
HitValues == {0, 19, 50, 100}
Doublings == {"player", "enemy", "unknown", "none", "both"}

VARIABLES player_hp, enemy_hp, player_hit, player_dmg, enemy_hit, enemy_dmg,
          doubling, pc, exc, dp, round_outcomes, b_hp, e_hp, k, prob, result

args == <<player_hp, enemy_hp, player_hit, player_dmg, enemy_hit, enemy_dmg, doubling>>
vars == <<args, pc, exc, dp, round_outcomes, b_hp, e_hp, k, prob, result>>

--------------------------------------------------------------------------
(* The statements of compute_win_chance as operators                      *)

\* np.zeros((player_hp + 1, enemy_hp + 1))
ZeroTable(php, ehp) == [c \in (0..php) \X (0..ehp) |-> FZero]

\* dp[0, :] = 0
WithPlayerDead(t) == [c \in DOMAIN t |-> IF c[1] = 0 THEN FZero ELSE t[c]]

\* mutant: the column is set before the row, so the row's 0 stays in cell (0,0)
WithEnemyDeadFirst(t) ==
    [c \in DOMAIN t |-> IF c[2] = 0 /\ c[1] # 0 THEN FOne ELSE t[c]]

\* dp[:, 0] = 1
WithEnemyDead(t) == [c \in DOMAIN t |-> IF c[2] = 0 THEN FOne ELSE t[c]]

Two == FFromInt(2)

\* mutant: the two orders of one hit and one miss counted once
RoundOutcomesNoBinomial(phit, pdmg, ehit, edmg, dbl) ==
    LET p_phit   == FDivInt(phit, 100)
        p_emhit  == FDivInt(ehit, 100)
        p_pmiss  == FSub(FOne, p_phit)
        p_emmiss == FSub(FOne, p_emhit)
    IN  IF dbl = "enemy" \/ dbl = "unknown"
        THEN << <<pdmg, 2 * edmg, FMul(FMul(p_phit, p_emhit), p_emhit)>>,
                <<pdmg, edmg, FMul(p_phit, FMul(p_emhit, p_emmiss))>>,
                <<pdmg, 0, FMul(FMul(p_phit, p_emmiss), p_emmiss)>>,
                <<0, 2 * edmg, FMul(FMul(p_pmiss, p_emhit), p_emhit)>>,
                <<0, edmg, FMul(p_pmiss, FMul(p_emhit, p_emmiss))>>,
                <<0, 0, FMul(FMul(p_pmiss, p_emmiss), p_emmiss)>> >>
        ELSE IF dbl = "player"
        THEN << <<2 * pdmg, edmg, FMul(FMul(p_phit, p_phit), p_emhit)>>,
                <<pdmg, edmg, FMul(FMul(p_phit, p_pmiss), p_emhit)>>,
                <<0, edmg, FMul(FMul(p_pmiss, p_pmiss), p_emhit)>>,
                <<2 * pdmg, 0, FMul(FMul(p_phit, p_phit), p_emmiss)>>,
                <<pdmg, 0, FMul(FMul(p_phit, p_pmiss), p_emmiss)>>,
                <<0, 0, FMul(FMul(p_pmiss, p_pmiss), p_emmiss)>> >>
        ELSE << <<pdmg, edmg, FMul(p_phit, p_emhit)>>,
                <<pdmg, 0, FMul(p_phit, p_emmiss)>>,
                <<0, edmg, FMul(p_pmiss, p_emhit)>>,
                <<0, 0, FMul(p_pmiss, p_emmiss)>> >>

\* the list round_outcomes of (d_beo, d_opp, p)
RoundOutcomes(phit, pdmg, ehit, edmg, dbl) ==
    LET p_phit   == FDivInt(phit, 100)
        p_emhit  == FDivInt(ehit, 100)
        p_pmiss  == FSub(FOne, p_phit)
        p_emmiss == FSub(FOne, p_emhit)
    IN  IF dbl = "enemy" \/ dbl = "unknown"
        THEN << <<pdmg, 2 * edmg, FMul(FMul(p_phit, p_emhit), p_emhit)>>,
                <<pdmg, edmg, FMul(p_phit, FMul(FMul(Two, p_emhit), p_emmiss))>>,
                <<pdmg, 0, FMul(FMul(p_phit, p_emmiss), p_emmiss)>>,
                <<0, 2 * edmg, FMul(FMul(p_pmiss, p_emhit), p_emhit)>>,
                <<0, edmg, FMul(p_pmiss, FMul(FMul(Two, p_emhit), p_emmiss))>>,
                <<0, 0, FMul(FMul(p_pmiss, p_emmiss), p_emmiss)>> >>
        ELSE IF dbl = "player"
        THEN << <<2 * pdmg, edmg, FMul(FMul(p_phit, p_phit), p_emhit)>>,
                <<pdmg, edmg, FMul(FMul(FMul(Two, p_phit), p_pmiss), p_emhit)>>,
                <<0, edmg, FMul(FMul(p_pmiss, p_pmiss), p_emhit)>>,
                <<2 * pdmg, 0, FMul(FMul(p_phit, p_phit), p_emmiss)>>,
                <<pdmg, 0, FMul(FMul(FMul(Two, p_phit), p_pmiss), p_emmiss)>>,
                <<0, 0, FMul(FMul(p_pmiss, p_pmiss), p_emmiss)>> >>
        ELSE << <<pdmg, edmg, FMul(p_phit, p_emhit)>>,
                <<pdmg, 0, FMul(p_phit, p_emmiss)>>,
                <<0, edmg, FMul(p_pmiss, p_emhit)>>,
                <<0, 0, FMul(p_pmiss, p_emmiss)>> >>

\* mutant: each side takes its own damage
SuccessorSwapped(b, e, o) == <<Max(b - o[1], 0), Max(e - o[2], 0)>>

\* next_b = max(b_hp - d_opp, 0) and next_e = max(e_hp - d_beo, 0)
Successor(b, e, o) == <<Max(b - o[2], 0), Max(e - o[1], 0)>>

\* prob += p * dp[next_b][next_e]
Accumulate(acc, t, b, e, o) == FAdd(acc, FMul(o[3], t[Successor(b, e, o)]))

\* range(1, n + 1): the first value, and the value after i
RangeStart == 1
RangeHasNext(i, n) == i < n

\* lines 268-272: prob after the outcomes i.. of cell (b, e)
RECURSIVE CellProb(_, _, _, _, _, _)
CellProb(acc, t, b, e, outs, i) ==
    IF i > Len(outs) THEN acc
    ELSE CellProb(Accumulate(acc, t, b, e, outs[i]), t, b, e, outs, i + 1)

\* lines 266-273: the table after the loop has run from cell (b, e) on
RECURSIVE FillFrom(_, _, _, _, _, _)
FillFrom(t, b, e, php, ehp, outs) ==
    LET t2 == [t EXCEPT ![<<b, e>>] = CellProb(FZero, t, b, e, outs, 1)]
    IN  IF RangeHasNext(e, ehp) THEN FillFrom(t2, b, e + 1, php, ehp, outs)
        ELSE IF RangeHasNext(b, php) THEN FillFrom(t2, b + 1, RangeStart, php, ehp, outs)
        ELSE t2

\* the value compute_win_chance returns, for inputs that raise nothing
ComputeWinChance(php, ehp, phit, pdmg, ehit, edmg, dbl) ==
    LET t0   == WithEnemyDead(WithPlayerDead(ZeroTable(php, ehp)))
        outs == RoundOutcomes(phit, pdmg, ehit, edmg, dbl)
        t    == IF RangeStart <= php /\ RangeStart <= ehp
                THEN FillFrom(t0, RangeStart, RangeStart, php, ehp, outs)
                ELSE t0
    IN  t[<<php, ehp>>]

--------------------------------------------------------------------------
(* The call, statement by statement                                       *)

Init ==
    /\ player_hp \in 1..MaxHP
    /\ enemy_hp \in 1..MaxHP
    /\ player_hit \in HitValues
    /\ enemy_hit \in HitValues
    /\ player_dmg \in 0..MaxDmg
    /\ enemy_dmg \in 0..MaxDmg
    /\ doubling \in Doublings
    /\ pc = "alloc"
    /\ exc = "none"
    /\ dp = <<>>
    /\ round_outcomes = <<>>
    /\ b_hp = 0
    /\ e_hp = 0
    /\ k = 0
    /\ prob = FZero
    /\ result = FZero

\* line 225; numpy refuses a negative dimension
Alloc ==
    /\ pc = "alloc" /\ exc = "none"
    /\ IF player_hp + 1 < 0 \/ enemy_hp + 1 < 0
       THEN exc' = "ValueError" /\ UNCHANGED <<pc, dp>>
       ELSE dp' = ZeroTable(player_hp, enemy_hp) /\ pc' = "player_dead" /\ UNCHANGED exc
    /\ UNCHANGED <<args, round_outcomes, b_hp, e_hp, k, prob, result>>

\* line 226; index 0 is out of bounds when the table has no row
PlayerDead ==
    /\ pc = "player_dead" /\ exc = "none"
    /\ IF player_hp + 1 = 0
       THEN exc' = "IndexError" /\ UNCHANGED <<pc, dp>>
       ELSE dp' = WithPlayerDead(dp) /\ pc' = "enemy_dead" /\ UNCHANGED exc
    /\ UNCHANGED <<args, round_outcomes, b_hp, e_hp, k, prob, result>>

\* line 227; index 0 is out of bounds when the table has no column
EnemyDead ==
    /\ pc = "enemy_dead" /\ exc = "none"
    /\ IF enemy_hp + 1 = 0
       THEN exc' = "IndexError" /\ UNCHANGED <<pc, dp>>
       ELSE dp' = WithEnemyDead(dp) /\ pc' = "outcomes" /\ UNCHANGED exc
    /\ UNCHANGED <<args, round_outcomes, b_hp, e_hp, k, prob, result>>

\* lines 229-263, then the loop heads of lines 266-268
Outcomes ==
    /\ pc = "outcomes" /\ exc = "none"
    /\ round_outcomes' = RoundOutcomes(player_hit, player_dmg, enemy_hit, enemy_dmg, doubling)
    /\ IF RangeStart <= player_hp /\ RangeStart <= enemy_hp
       THEN b_hp' = RangeStart /\ e_hp' = RangeStart /\ k' = 1 /\ pc' = "read"
       ELSE pc' = "return" /\ UNCHANGED <<b_hp, e_hp, k>>
    /\ prob' = FZero
    /\ UNCHANGED <<args, exc, dp, result>>

\* lines 269-272 for the k-th outcome; an index past the table raises
Read ==
    /\ pc = "read" /\ exc = "none"
    /\ LET o == round_outcomes[k]
           n == Successor(b_hp, e_hp, o)
       IN  IF n[1] > player_hp \/ n[2] > enemy_hp
           THEN exc' = "IndexError" /\ UNCHANGED <<pc, prob, k>>
           ELSE /\ prob' = Accumulate(prob, dp, b_hp, e_hp, o)
                /\ IF k < Len(round_outcomes)
                   THEN k' = k + 1 /\ UNCHANGED pc
                   ELSE pc' = "store" /\ UNCHANGED k
                /\ UNCHANGED exc
    /\ UNCHANGED <<args, dp, round_outcomes, b_hp, e_hp, result>>

\* line 273, then the loop heads of lines 266-268
Store ==
    /\ pc = "store" /\ exc = "none"
    /\ dp' = [dp EXCEPT ![<<b_hp, e_hp>>] = prob]
    /\ IF RangeHasNext(e_hp, enemy_hp)
       THEN e_hp' = e_hp + 1 /\ pc' = "read" /\ UNCHANGED b_hp
       ELSE IF RangeHasNext(b_hp, player_hp)
       THEN b_hp' = b_hp + 1 /\ e_hp' = RangeStart /\ pc' = "read"
       ELSE pc' = "return" /\ UNCHANGED <<b_hp, e_hp>>
    /\ prob' = FZero
    /\ k' = 1
    /\ UNCHANGED <<args, exc, round_outcomes, result>>

\* line 275
Return ==
    /\ pc = "return" /\ exc = "none"
    /\ result' = dp[<<player_hp, enemy_hp>>]
    /\ pc' = "done"
    /\ UNCHANGED <<args, exc, dp, round_outcomes, b_hp, e_hp, k, prob>>

Next == Alloc \/ PlayerDead \/ EnemyDead \/ Outcomes \/ Read \/ Store \/ Return

Spec == Init /\ [][Next]_vars

--------------------------------------------------------------------------
(* The outcome list alone, for every pair of hit chances: the call has     *)
(* reached line 229 with a 2 x 2 table.  The damages run through all their *)
(* pairs along with the hit chances.                                       *)

InitOutcomes ==
    /\ player_hp = 1
    /\ enemy_hp = 1
    /\ player_hit \in 0..100
    /\ enemy_hit \in 0..100
    /\ player_dmg = player_hit % (MaxDmg + 1)
    /\ enemy_dmg = enemy_hit % (MaxDmg + 1)
    /\ doubling \in Doublings
    /\ pc = "outcomes"
    /\ exc = "none"
    /\ dp = WithEnemyDead(WithPlayerDead(ZeroTable(1, 1)))
    /\ round_outcomes = <<>>
    /\ b_hp = 0
    /\ e_hp = 0
    /\ k = 0
    /\ prob = FZero
    /\ result = FZero

SpecOutcomes == InitOutcomes /\ [][Outcomes]_vars

--------------------------------------------------------------------------
(* The call with arguments nothing has validated: run() passes on what the *)
(* user typed and what the JSON files hold                                 *)

AnyHP == {0 - 2, 0 - 1, 0, 1, 2}
AnyHit == {0 - 50, 50, 150}
AnyDmg == {0 - 1, 1}

InitAny ==
    /\ player_hp \in AnyHP
    /\ enemy_hp \in AnyHP
    /\ player_hit \in AnyHit
    /\ enemy_hit \in AnyHit
    /\ player_dmg \in AnyDmg
    /\ enemy_dmg \in AnyDmg
    /\ doubling \in {"none", "enemy"}
    /\ pc = "alloc"
    /\ exc = "none"
    /\ dp = <<>>
    /\ round_outcomes = <<>>
    /\ b_hp = 0
    /\ e_hp = 0
    /\ k = 0
    /\ prob = FZero
    /\ result = FZero

SpecAny == InitAny /\ [][Next]_vars

--------------------------------------------------------------------------
(* Properties                                                             *)

ValidArgs ==
    /\ player_hp >= 1 /\ enemy_hp >= 1
    /\ player_hit \in 0..100 /\ enemy_hit \in 0..100
    /\ player_dmg >= 0 /\ enemy_dmg >= 0

Interior == (1..player_hp) \X (1..enemy_hp)
InUnit(x) == FLe(FZero, x) /\ FLe(x, FOne)
BoundariesSet == pc \in {"outcomes", "read", "store", "return", "done"}

\* the call computes what the function computes
ResultAgrees ==
    pc = "done" =>
        result = ComputeWinChance(player_hp, enemy_hp, player_hit, player_dmg,
                                  enemy_hit, enemy_dmg, doubling)

\* C1: for valid arguments every cell of the table is in [0,1] at every point
\* of the fill, and so is the value returned.
C1_UnitInterval ==
    /\ pc # "alloc" => \A c \in DOMAIN dp : InUnit(dp[c])
    /\ pc = "done" => InUnit(result)

\* C2: in the finished table every interior cell equals the sum, over all the
\* round outcomes, of the probability times the finished table's value at the
\* successor cell, the outcomes that lead back to the cell itself included.
C2_Recurrence ==
    pc = "done" =>
        \A c \in Interior :
            dp[c] = CellProb(FZero, dp, c[1], c[2], round_outcomes, 1)

\* C3: once both boundary statements have run, and until the call returns,
\* every cell (0,e) with e >= 1 is 0 and every cell (p,0) is 1, cell (0,0)
\* included: the fill never overwrites a boundary cell.
C3_Boundary ==
    BoundariesSet =>
        /\ \A e \in 1..enemy_hp : dp[<<0, e>>] = FZero
        /\ \A p \in 0..player_hp : dp[<<p, 0>>] = FOne

\* C3 witness: the fill reads cell (0,0) for an outcome of positive
\* probability that defeats both sides at once, and finds 1 there.
C3_Witness ==
    /\ pc = "read"
    /\ Successor(b_hp, e_hp, round_outcomes[k]) = <<0, 0>>
    /\ round_outcomes[k][3] # FZero
    /\ dp[<<0, 0>>] = FOne

\* C4: with enemy_dmg = 0 and enemy_hit > 0 the call returns exactly 1.
C4_HarmlessEnemy ==
    (pc = "done" /\ enemy_dmg = 0 /\ enemy_hit > 0) => result = FOne

\* C5: with player_dmg = 0, player_hit > 0 and enemy_dmg > 0 the call returns
\* exactly 0.
C5_HarmlessPlayer ==
    (pc = "done" /\ player_dmg = 0 /\ player_hit > 0 /\ enemy_dmg > 0)
        => result = FZero

\* C5 witness: such a call has returned, from the largest table, with an
\* enemy that can hit.
C5_Witness ==
    /\ pc = "done" /\ player_dmg = 0 /\ player_hit > 0 /\ enemy_dmg > 0
    /\ enemy_hit > 0 /\ player_hp = MaxHP /\ enemy_hp = MaxHP
    /\ result = FZero

\* C6: with the other arguments fixed, a call with a larger enemy_hit or a
\* larger enemy_dmg never returns more.
C6_EnemyMonotone ==
    pc = "done" =>
        /\ \A h \in HitValues :
              h < enemy_hit =>
                FLe(result, ComputeWinChance(player_hp, enemy_hp, player_hit,
                                             player_dmg, h, enemy_dmg, doubling))
        /\ \A d \in 0..MaxDmg :
              d < enemy_dmg =>
                FLe(result, ComputeWinChance(player_hp, enemy_hp, player_hit,
                                             player_dmg, enemy_hit, d, doubling))

\* C7: in the finished table a cell never decreases when the player's HP
\* grows by one and never increases when the enemy's HP grows by one; the
\* value returned is at least that of the call with one player HP less and at
\* most that of the call with one enemy HP less.
C7_HPMonotone ==
    pc = "done" =>
        /\ \A c \in Interior :
              /\ c[1] < player_hp => FLe(dp[c], dp[<<c[1] + 1, c[2]>>])
              /\ c[2] < enemy_hp => FLe(dp[<<c[1], c[2] + 1>>], dp[c])
        /\ player_hp >= 2 =>
              FLe(ComputeWinChance(player_hp - 1, enemy_hp, player_hit, player_dmg,
                                   enemy_hit, enemy_dmg, doubling), result)
        /\ enemy_hp >= 2 =>
              FLe(result, ComputeWinChance(player_hp, enemy_hp - 1, player_hit,
                                           player_dmg, enemy_hit, enemy_dmg, doubling))

\* C8: a call with an invalid argument never allocates the table, writes no
\* cell and returns nothing.
C8_InvalidRejected == ~ValidArgs => pc = "alloc"

\* the exact sum of the probabilities of a list of outcomes
RECURSIVE ExactSum(_, _)
ExactSum(outs, i) ==
    IF i > Len(outs) THEN FZero ELSE ExactAdd(outs[i][3], ExactSum(outs, i + 1))

\* |x - 1| <= 10^-9, decided exactly
NearOne(x) ==
    LET d == ExactAdd(x, FNeg(FOne))
    IN  \/ d.m = <<>>
        \/ /\ d.e < 0
           /\ BigCmp(BigMul(d.m, BigFromNat(1000000000)), BigShl(<<1>>, 0 - d.e)) <= 0

\* C9: for every pair of hit chances in 0..100 and every doubling mode the
\* outcome list has 6 outcomes for player, enemy and unknown and 4 for
\* anything else, and its probabilities sum to 1 within 10^-9.
C9_Complete ==
    pc = "read" =>
        /\ Len(round_outcomes) =
              (IF doubling \in {"player", "enemy", "unknown"} THEN 6 ELSE 4)
        /\ NearOne(ExactSum(round_outcomes, 1))

\* C9 witness: the list of an unrecognised mode, 4 outcomes, whose
\* probabilities do not sum to 1 exactly.
C9_Witness ==
    /\ pc = "read" /\ doubling = "both" /\ Len(round_outcomes) = 4
    /\ ExactSum(round_outcomes, 1).m # <<>>
    /\ ExactAdd(ExactSum(round_outcomes, 1), FNeg(FOne)).m # <<>>

\* C10: whenever the fill reads a successor cell, that cell is a boundary
\* cell or an interior cell the loop has already assigned.
C10_SuccessorFilled ==
    pc = "read" =>
        LET n == Successor(b_hp, e_hp, round_outcomes[k])
        IN  \/ n[1] = 0 \/ n[2] = 0
            \/ n[1] < b_hp
            \/ n[1] = b_hp /\ n[2] < e_hp

====
